---- MODULE Spec2Model ----
(***************************************************************************)
(* Per-session ingestion state machine and chat request handlers of        *)
(* backend/api/chatbot.py.                                                 *)
(*                                                                         *)
(* All handlers and ingest_files_background are `async def` coroutines on  *)
(* one event loop.  A coroutine gives up the loop only at an `await`.      *)
(* ingest_files_background contains no `await`, so once the framework      *)
(* starts it, it holds the loop until it returns: `running` names the      *)
(* session whose ingestion holds the loop, and every request handler is    *)
(* guarded by running = NoSid.  The steps of the coroutine are kept as     *)
(* separate actions so that its intermediate states are states of the      *)
(* model.                                                                  *)
(*                                                                         *)
(* Specifications:                                                         *)
(*   Spec         sessions, ingestion, status polls, logout, uploads       *)
(*   SpecChat     the same with the chat handlers and uploads, one client  *)
(*   SpecExpiry   the same with a clock and cleanup_expired_sessions       *)
(*   SpecSources  ingestion of files whose names share a base name         *)
(*   SpecKb       ChatBot/knowledge_base.py on one text: chunk_text,       *)
(*                embedding, the index and chunk file, and reading back    *)
(*   SpecRt       ChatBot/retriever.py on one faiss directory, as the      *)
(*                handlers call it                                         *)
(*   SpecDays     parse_days_from_text on one message                      *)
(***************************************************************************)
EXTENDS Integers, Sequences, FiniteSets, TLC

\* ---- bounds ----
NumSessions == 2
MaxFiles == 2

Sid == 1..NumSessions
NoSid == 0

\* ---- uploaded files ----
\* A file is its base name, its extension and the verdict of validate_file
\* (content type in ALLOWED_MIME_TYPES and size within MAX_UPLOAD_SIZE_MB).
UploadFiles ==
    { [base |-> "a", ext |-> "pdf", valid |-> TRUE],
      [base |-> "b", ext |-> "png", valid |-> TRUE],
      [base |-> "c", ext |-> "pdf", valid |-> FALSE] }

\* the files of one upload request: up to MaxFiles files with distinct names
Batches ==
    UNION { { q \in [1..k -> UploadFiles] :
                \A x, y \in 1..k : x # y => q[x] # q[y] } : k \in 0..MaxFiles }

validate_file(f) == f.valid

\* file_paths built by the upload loops: the accepted files, in order
AcceptedPaths(files) == SelectSeq(files, validate_file)

RangeOf(seq) == { seq[k] : k \in 1..Len(seq) }

\* ---- ingest task records ----
NoPercent == -1          \* the dict has no "percent" key
Detail(kind, i, n, exc) == [kind |-> kind, i |-> i, n |-> n, exc |-> exc]
NoDetail == Detail("none", 0, 0, "")
Task(status, detail, percent) ==
    [status |-> status, detail |-> detail, percent |-> percent]
NoTask == Task("absent", NoDetail, NoPercent)   \* session_id not in ingest_tasks

\* exceptions a step of the batch can raise (str(e) is the name here)
ExtractErrors == {"FileNotFoundError", "ExtractError"}
WriteErrors == {"OSError"}

\* index and chunks are the base names b for which faiss/<b>.index and
\* faiss/<b>_chunks.txt exist; index_of and chunks_of are the uploaded files
\* whose vectors and passages those files hold
EmptyDisk ==
    [dir |-> FALSE, faiss |-> FALSE, uploads |-> {},
     index |-> {}, chunks |-> {}, ocr |-> {},
     index_of |-> {}, chunks_of |-> {}]

\* open(path, 'w') / faiss.write_index: the file of f's base name now holds
\* what was computed from f
Overwrite(held, f) == { g \in held : g.base # f.base } \cup {f}
NoMeta == [exists |-> FALSE, files |-> <<>>, created_at |-> 0]
NoCoro == [pc |-> "none", files |-> <<>>, i |-> 0, exc |-> "", cause |-> "none"]
DoneCoro == [pc |-> "done", files |-> <<>>, i |-> 0, exc |-> "", cause |-> "none"]
\* msg, days and styled are set by the chat handlers: the message answered,
\* its requested_days (0 for None) and the is_diet_plan flag the answer was
\* formatted with
NoResp == [op |-> "none", sid |-> NoSid, code |-> 0, kind |-> "none",
           task |-> NoTask, retrieved |-> FALSE,
           msg |-> <<>>, days |-> 0, styled |-> FALSE]

\* websocket_chat: pc is "closed", "open" (awaiting receive_json) or "stream"
\* (inside the token loop of line 1470-1480); ctx is the local
\* retrieved_context, "undef" until a diet-related message has bound it
\* together with requested_days (days, 0 for None), supported_days and
\* faiss_dir.
NoWs == [sid |-> NoSid, pc |-> "closed", ctx |-> "undef", days |-> 0]

NeverCleaned == -1

\* no pipeline run and no retrieval under way
NoKb == [pc |-> "none"]
NoRt == [pc |-> "none"]
NoPd == [pc |-> "none"]

VARIABLES
    sessions,       \* sessions dict: [Sid -> [present, files]]; "files" is a
                    \* list that is only ever extended and never read, kept
                    \* here as the set of its elements
    ingest_tasks,   \* ingest_tasks dict: [Sid -> task record or NoTask]
    disk,           \* uploads/<sid>/ directory tree
    session_meta,   \* sessions/<sid>.json
    coro,           \* the ingest_files_background call scheduled for a session
    running,        \* session whose ingestion holds the event loop, or NoSid
    created,        \* session ids uuid4 has handed out
    logged_out,     \* sessions for which logout_session returned success
    ws,             \* the websocket_chat connection of the chat client
    resp,           \* the response a handler has returned and the server has not yet sent
    clock,          \* datetime.now(), in ticks of TickHours hours
    cleaned_at,     \* time of the last "Periodic cleanup completed at" log line
    kb,             \* one run of the knowledge_base.py pipeline on one text
    rt,             \* one retrieval against one faiss directory
    pd              \* one call of parse_days_from_text on one message

vars == <<sessions, ingest_tasks, disk, session_meta, coro, running,
          created, logged_out, ws, resp, clock, cleaned_at, kb, rt, pd>>

\* what the request handlers and the ingestion leave alone
others == <<clock, cleaned_at, kb, rt, pd>>

NoSession == [present |-> FALSE, files |-> {}, created_at |-> 0]

ServerInit ==
    /\ sessions = [s \in Sid |-> NoSession]
    /\ ingest_tasks = [s \in Sid |-> NoTask]
    /\ disk = [s \in Sid |-> EmptyDisk]
    /\ session_meta = [s \in Sid |-> NoMeta]
    /\ coro = [s \in Sid |-> NoCoro]
    /\ running = NoSid
    /\ created = {}
    /\ logged_out = {}
    /\ ws = NoWs
    /\ resp = NoResp

Init ==
    /\ ServerInit
    /\ clock = 0
    /\ cleaned_at = NeverCleaned
    /\ kb = NoKb
    /\ rt = NoRt
    /\ pd = NoPd

\* The event loop is free: no ingestion holds it and the previous handler's
\* response has been written out.
LoopFree == running = NoSid /\ resp = NoResp

\* The server writes the pending response to the client.
Respond ==
    /\ resp # NoResp
    /\ resp' = NoResp
    /\ UNCHANGED <<sessions, ingest_tasks, disk, session_meta, coro, running,
                   created, logged_out, ws>>
    /\ UNCHANGED others

Reply(op, s, code, kind, task, retrieved) ==
    [op |-> op, sid |-> s, code |-> code, kind |-> kind,
     task |-> task, retrieved |-> retrieved,
     msg |-> <<>>, days |-> 0, styled |-> FALSE]

\* uuid4: an id never handed out before (ids are opaque, the least one is taken)
NewSessionId == CHOOSE s \in Sid \ created : \A t \in Sid \ created : s <= t

\* ---- POST /session ----
create_chat_session(files, medical_ok) ==
    /\ LoopFree
    /\ created # Sid
    /\ IF ~medical_ok
       THEN \* json.loads(medical_condition) raises: HTTP 500, nothing stored
            /\ resp' = Reply("create", NoSid, 500, "error", NoTask, FALSE)
            /\ UNCHANGED <<sessions, ingest_tasks, disk, session_meta, coro,
                           running, created, logged_out, ws>>
       ELSE LET s == NewSessionId
                file_paths == AcceptedPaths(files)
            IN  /\ created' = created \cup {s}
                /\ disk' = [disk EXCEPT ![s].dir = TRUE,
                                        ![s].uploads = RangeOf(file_paths)]
                /\ sessions' = [sessions EXCEPT
                                  ![s] = [present |-> TRUE,
                                          files |-> RangeOf(file_paths),
                                          created_at |-> clock]]
                /\ IF file_paths # <<>>
                   THEN /\ coro' = [coro EXCEPT ![s] =
                               [pc |-> "pending", files |-> file_paths, i |-> 0,
                                exc |-> "", cause |-> "none"]]
                        /\ ingest_tasks' = [ingest_tasks EXCEPT ![s] =
                               Task("queued", Detail("queued", 0, 0, ""), NoPercent)]
                   ELSE /\ coro' = coro
                        /\ ingest_tasks' = [ingest_tasks EXCEPT ![s] =
                               Task("completed", Detail("nofiles", 0, 0, ""), NoPercent)]
                /\ resp' = Reply("create", s, 200, "created", NoTask, FALSE)
                /\ UNCHANGED <<session_meta, running, logged_out, ws>>
    /\ UNCHANGED others

\* ---- ingest_files_background ----
\* mutant: the tasks dict is rebound instead of one key being set
IngestStart_RebindsTasks(s) ==
    /\ LoopFree
    /\ coro[s].pc = "pending"
    /\ running' = s
    /\ ingest_tasks' = [t \in Sid |->
           IF t = s THEN Task("in_progress", Detail("starting", 0, 0, ""), NoPercent)
           ELSE NoTask]
    /\ disk' = [disk EXCEPT ![s].dir = TRUE, ![s].faiss = TRUE]
    /\ coro' = [coro EXCEPT ![s].pc = "loop", ![s].i = 0]
    /\ UNCHANGED <<sessions, session_meta, created, logged_out, ws, resp>>
    /\ UNCHANGED others

\* line 522-526: the framework starts the scheduled call
IngestStart(s) ==
    /\ LoopFree
    /\ coro[s].pc = "pending"
    /\ running' = s
    /\ ingest_tasks' = [ingest_tasks EXCEPT ![s] =
           Task("in_progress", Detail("starting", 0, 0, ""), NoPercent)]
    /\ disk' = [disk EXCEPT ![s].dir = TRUE, ![s].faiss = TRUE]
    /\ coro' = [coro EXCEPT ![s].pc = "loop", ![s].i = 0]
    /\ UNCHANGED <<sessions, session_meta, created, logged_out, ws, resp>>
    /\ UNCHANGED others

\* mutant: percent counts the files still to come
IngestFileBegin_Remaining(s) ==
    /\ running = s
    /\ coro[s].pc = "loop"
    /\ coro[s].i < Len(coro[s].files)
    /\ LET i == coro[s].i
           n == Len(coro[s].files)
       IN ingest_tasks' = [ingest_tasks EXCEPT
              ![s].detail = Detail("processing", i + 1, n, ""),
              ![s].percent = ((n - i) * 100) \div n]
    /\ coro' = [coro EXCEPT ![s].pc = "file"]
    /\ UNCHANGED <<sessions, disk, session_meta, running, created,
                   logged_out, ws, resp>>
    /\ UNCHANGED others

\* line 529-531: the i-th file (0-based) begins
IngestFileBegin(s) ==
    /\ running = s
    /\ coro[s].pc = "loop"
    /\ coro[s].i < Len(coro[s].files)
    /\ LET i == coro[s].i
           n == Len(coro[s].files)
       IN ingest_tasks' = [ingest_tasks EXCEPT
              ![s].detail = Detail("processing", i + 1, n, ""),
              ![s].percent = (i * 100) \div n]
    /\ coro' = [coro EXCEPT ![s].pc = "file"]
    /\ UNCHANGED <<sessions, disk, session_meta, running, created,
                   logged_out, ws, resp>>
    /\ UNCHANGED others

Raise(s, exc, cause) ==
    coro' = [coro EXCEPT ![s].pc = "except", ![s].exc = exc, ![s].cause = cause]

NextFile(s) == coro' = [coro EXCEPT ![s].pc = "loop", ![s].i = coro[s].i + 1]

CurrentFile(s) == coro[s].files[coro[s].i + 1]

OnDisk(s, f) == disk[s].dir /\ f \in disk[s].uploads

\* mutant: the PDF branch catches the exception and goes on with the next file
IngestPdf_Swallow(s) ==
    /\ running = s
    /\ coro[s].pc = "file"
    /\ CurrentFile(s).ext = "pdf"
    /\ LET f == CurrentFile(s) IN
       \/ /\ disk' = disk
          /\ NextFile(s)
       \/ /\ OnDisk(s, f)
          /\ disk' = [disk EXCEPT ![s].index = @ \cup {f.base},
                                  ![s].index_of = Overwrite(@, f)]
          /\ NextFile(s)
       \/ /\ OnDisk(s, f)
          /\ disk' = [disk EXCEPT ![s].index = @ \cup {f.base},
                                  ![s].index_of = Overwrite(@, f),
                                  ![s].chunks = @ \cup {f.base},
                                  ![s].chunks_of = Overwrite(@, f)]
          /\ NextFile(s)
    /\ UNCHANGED <<sessions, ingest_tasks, session_meta, running, created,
                   logged_out, ws, resp>>
    /\ UNCHANGED others

\* line 536-540 with process_pdf_to_faiss: no handler around the call
IngestPdf(s) ==
    /\ running = s
    /\ coro[s].pc = "file"
    /\ CurrentFile(s).ext = "pdf"
    /\ LET f == CurrentFile(s) IN
       \/ \* extraction, chunking or embedding raises: nothing written
          /\ \E e \in ExtractErrors :
                /\ (e = "FileNotFoundError") <=> ~OnDisk(s, f)
                /\ Raise(s, e, "pdf")
          /\ disk' = disk
       \/ \* index written, then the chunk file write raises
          /\ OnDisk(s, f)
          /\ \E e \in WriteErrors : Raise(s, e, "pdf")
          /\ disk' = [disk EXCEPT ![s].index = @ \cup {f.base},
                                  ![s].index_of = Overwrite(@, f)]
       \/ \* index and chunk file written
          /\ OnDisk(s, f)
          /\ disk' = [disk EXCEPT ![s].index = @ \cup {f.base},
                                  ![s].index_of = Overwrite(@, f),
                                  ![s].chunks = @ \cup {f.base},
                                  ![s].chunks_of = Overwrite(@, f)]
          /\ NextFile(s)
    /\ UNCHANGED <<sessions, ingest_tasks, session_meta, running, created,
                   logged_out, ws, resp>>
    /\ UNCHANGED others

\* line 541-571: images; the handler falls back to extract_and_parse
IngestImage(s) ==
    /\ running = s
    /\ coro[s].pc = "file"
    /\ CurrentFile(s).ext # "pdf"
    /\ LET f == CurrentFile(s) IN
       \/ \* line 545-563 all succeed
          /\ OnDisk(s, f)
          /\ disk' = [disk EXCEPT ![s].index = @ \cup {f.base},
                                  ![s].index_of = Overwrite(@, f),
                                  ![s].chunks = @ \cup {f.base},
                                  ![s].chunks_of = Overwrite(@, f)]
          /\ NextFile(s)
       \/ \* chunking/embedding/indexing raised, fallback stores the OCR data
          /\ OnDisk(s, f)
          /\ disk' = [disk EXCEPT ![s].ocr = @ \cup {f.base}]
          /\ NextFile(s)
       \/ \* index written, chunk write raised, fallback stores the OCR data
          /\ OnDisk(s, f)
          /\ disk' = [disk EXCEPT ![s].index = @ \cup {f.base},
                                  ![s].index_of = Overwrite(@, f),
                                  ![s].ocr = @ \cup {f.base}]
          /\ NextFile(s)
       \/ \* extract_text_only raised and extract_and_parse (line 568), which
          \* extracts the same file again, raises inside the handler
          /\ \E e \in ExtractErrors :
                /\ (e = "FileNotFoundError") <=> ~OnDisk(s, f)
                /\ Raise(s, e, "image")
          /\ disk' = disk
       \/ \* the fallback's json file cannot be written (line 570)
          /\ OnDisk(s, f)
          /\ \E e \in WriteErrors : Raise(s, e, "image")
          /\ disk' = disk
    /\ UNCHANGED <<sessions, ingest_tasks, session_meta, running, created,
                   logged_out, ws, resp>>
    /\ UNCHANGED others

\* line 573-577: the loop is over
IngestComplete(s) ==
    /\ running = s
    /\ coro[s].pc = "loop"
    /\ coro[s].i = Len(coro[s].files)
    /\ ingest_tasks' = [ingest_tasks EXCEPT ![s] =
           Task("completed", Detail("success", 0, Len(coro[s].files), ""), 100)]
    /\ coro' = [coro EXCEPT ![s].pc = "persist"]
    /\ UNCHANGED <<sessions, disk, session_meta, running, created,
                   logged_out, ws, resp>>
    /\ UNCHANGED others

\* line 579-590: session metadata written, the coroutine returns
IngestPersist(s) ==
    /\ running = s
    /\ coro[s].pc = "persist"
    /\ \/ /\ session_meta' = [session_meta EXCEPT ![s] =
                 [exists |-> TRUE, files |-> coro[s].files,
                  created_at |-> clock]]
          /\ coro' = [coro EXCEPT ![s] = DoneCoro]
          /\ running' = NoSid
       \/ /\ \E e \in WriteErrors : Raise(s, e, "persist")
          /\ UNCHANGED <<session_meta, running>>
    /\ UNCHANGED <<sessions, ingest_tasks, disk, created, logged_out, ws, resp>>
    /\ UNCHANGED others

\* mutant: the handler leaves percent as it was
IngestExcept_KeepPercent(s) ==
    /\ running = s
    /\ coro[s].pc = "except"
    /\ ingest_tasks' = [ingest_tasks EXCEPT ![s] =
           Task("failed", Detail("failed", 0, 0, coro[s].exc),
                ingest_tasks[s].percent)]
    /\ coro' = [coro EXCEPT ![s] = DoneCoro]
    /\ running' = NoSid
    /\ UNCHANGED <<sessions, disk, session_meta, created, logged_out, ws, resp>>
    /\ UNCHANGED others

\* line 592-597: except Exception
IngestExcept(s) ==
    /\ running = s
    /\ coro[s].pc = "except"
    /\ ingest_tasks' = [ingest_tasks EXCEPT ![s] =
           Task("failed", Detail("failed", 0, 0, coro[s].exc), 0)]
    /\ coro' = [coro EXCEPT ![s] = DoneCoro]
    /\ running' = NoSid
    /\ UNCHANGED <<sessions, disk, session_meta, created, logged_out, ws, resp>>
    /\ UNCHANGED others

\* mutant: no membership test, ingest_tasks[session_id] raises KeyError
get_ingest_status_NoCheck(s) ==
    /\ LoopFree
    /\ resp' = IF ingest_tasks[s].status = "absent"
               THEN Reply("status", s, 500, "internal_error", NoTask, FALSE)
               ELSE Reply("status", s, 200, "status", ingest_tasks[s], FALSE)
    /\ UNCHANGED <<sessions, ingest_tasks, disk, session_meta, coro, running,
                   created, logged_out, ws>>
    /\ UNCHANGED others

\* ---- GET /session/{id}/ingest-status ----
get_ingest_status(s) ==
    /\ LoopFree
    /\ resp' = IF ingest_tasks[s].status = "absent"
               THEN Reply("status", s, 404, "not_found", NoTask, FALSE)
               ELSE Reply("status", s, 200, "status", ingest_tasks[s], FALSE)
    /\ UNCHANGED <<sessions, ingest_tasks, disk, session_meta, coro, running,
                   created, logged_out, ws>>
    /\ UNCHANGED others

\* ---- cleanup_session_data ----
cleanup_session_data(s) ==
    /\ sessions' = [sessions EXCEPT ![s] = NoSession]
    /\ ingest_tasks' = [ingest_tasks EXCEPT ![s] = NoTask]
    /\ disk' = [disk EXCEPT ![s] = EmptyDisk]
    /\ session_meta' = [session_meta EXCEPT ![s] = NoMeta]

\* ---- POST /{id}/logout ----
logout_session(s) ==
    /\ LoopFree
    /\ IF ~sessions[s].present
       THEN /\ resp' = Reply("logout", s, 404, "not_found", NoTask, FALSE)
            /\ UNCHANGED <<sessions, ingest_tasks, disk, session_meta,
                           logged_out>>
       ELSE /\ cleanup_session_data(s)
            /\ logged_out' = logged_out \cup {s}
            /\ resp' = Reply("logout", s, 200, "logged_out", NoTask, FALSE)
    /\ UNCHANGED <<coro, running, created, ws>>
    /\ UNCHANGED others

\* ---- POST /{id}/upload ----
\* The BackgroundTasks object of line 1567 is a local that is neither a
\* parameter of the handler nor attached to the response, so the framework
\* never runs the call added to it: nothing is scheduled.
upload_additional_files(s, files) ==
    /\ LoopFree
    /\ IF ~sessions[s].present
       THEN /\ resp' = Reply("upload", s, 404, "not_found", NoTask, FALSE)
            /\ UNCHANGED <<sessions, disk>>
       ELSE LET file_paths == AcceptedPaths(files) IN
            /\ disk' = [disk EXCEPT ![s].uploads = @ \cup RangeOf(file_paths)]
            /\ sessions' = [sessions EXCEPT ![s].files = @ \cup RangeOf(file_paths)]
            /\ resp' = Reply("upload", s, 200, "uploaded", NoTask, FALSE)
    /\ UNCHANGED <<ingest_tasks, session_meta, coro, running, created,
                   logged_out, ws>>
    /\ UNCHANGED others


\* ---- message texts ----
\* A message is a sequence of pieces of text: a digit, a space, or a run of
\* letters that the code's keyword lists and patterns treat as a unit ("day"
\* followed by "s" is the text "days", "fat" followed by "igue" is "fatigue").
\* message.lower() changes nothing: the pieces are lower case.
Whitespace == {" ", "\n"}      \* what str.split() and str.strip() drop
Digits == {"0", "1", "3"}

\* x.strip()
strip(x) ==
    LET solid == { i \in 1..Len(x) : x[i] \notin Whitespace } IN
    IF solid = {} THEN <<>>
    ELSE LET lo == CHOOSE i \in solid : \A j \in solid : i <= j
             hi == CHOOSE i \in solid : \A j \in solid : j <= i
         IN  SubSeq(x, lo, hi)

\* `kw in msg` for strings
Contains(kw, msg) ==
    \E i \in 1..(Len(msg) - Len(kw) + 1) : SubSeq(msg, i, i + Len(kw) - 1) = kw

\* set(msg.split())
Words(msg) ==
    { SubSeq(msg, a, b) : a \in 1..Len(msg), b \in 1..Len(msg) } \cap
    { w \in UNION { [1..k -> RangeOf(msg)] : k \in 1..Len(msg) } :
        \E a \in 1..Len(msg) :
           LET b == a + Len(w) - 1 IN
           /\ b <= Len(msg)
           /\ SubSeq(msg, a, b) = w
           /\ \A i \in a..b : msg[i] \notin Whitespace
           /\ (a = 1 \/ msg[a - 1] \in Whitespace)
           /\ (b = Len(msg) \/ msg[b + 1] \in Whitespace) }

\* the entries of the keyword lists that can be written with the pieces
DietKeywords ==                     \* line 52-66
    { <<"diet">>, <<"fat">>, <<"day", "s">>, <<"week">>, <<"month">>,
      <<"blood", " ", "pressure">> }
EmergencyKeywords ==                \* line 807-816
    { <<"fever">>, <<"fat", "igue">> }
InappropriateTerms == { <<"kill">> }    \* line 742-745
ExitCommands == { <<"exit">> }          \* line 1347

\* ---- parse_days_from_text ----
None == 0                      \* Python's None, where a day count is expected

DigitValue(c) == IF c = "0" THEN 0 ELSE IF c = "1" THEN 1 ELSE 3

\* int(digits)
RECURSIVE IntOf(_)
IntOf(digits) ==
    IF digits = <<>> THEN 0
    ELSE 10 * IntOf(SubSeq(digits, 1, Len(digits) - 1))
         + DigitValue(digits[Len(digits)])

\* \w: everything but white space is a digit or a letter
WordChar(c) == c \notin Whitespace

\* \b in front of position p and behind position q of msg
BoundaryBefore(msg, p) == p = 1 \/ ~WordChar(msg[p - 1])
BoundaryAfter(msg, q) == q = Len(msg) \/ ~WordChar(msg[q + 1])

\* last position of the digits \d+ takes when it starts at p
RunEnd(msg, p) ==
    CHOOSE e \in p..Len(msg) :
        /\ \A i \in p..e : msg[i] \in Digits
        /\ (e = Len(msg) \/ msg[e + 1] \notin Digits)

\* first position from q on that \s* does not take
SkipSpaces(msg, q) ==
    LET solid == { i \in q..Len(msg) : msg[i] # " " } IN
    IF solid = {} THEN Len(msg) + 1
    ELSE CHOOSE i \in solid : \A j \in solid : i <= j

\* (\d+)\s*unit matches at p; giving digits back cannot help \d+, what
\* follows them would be a digit
MatchesAt(msg, p, unit) ==
    /\ msg[p] \in Digits
    /\ LET u == SkipSpaces(msg, RunEnd(msg, p) + 1) IN
       u <= Len(msg) /\ msg[u] = unit

NoMatch == -1

\* re.search(r"(\d+)\s*unit(s)?", msg), then int(m.group(1)): the leftmost match
SearchNumber(msg, unit) ==
    LET at == { p \in 1..Len(msg) : MatchesAt(msg, p, unit) } IN
    IF at = {} THEN NoMatch
    ELSE LET p == CHOOSE a \in at : \A b \in at : a <= b
         IN  IntOf(SubSeq(msg, p, RunEnd(msg, p)))

\* re.search(r"\b<number>\s*unit(s)?\b", msg); plural says whether the
\* pattern has the (s)?
SearchWord(msg, number, unit, plural) ==
    \E p \in 1..Len(msg) :
        /\ p + Len(number) - 1 <= Len(msg)
        /\ SubSeq(msg, p, p + Len(number) - 1) = number
        /\ BoundaryBefore(msg, p)
        /\ LET u == SkipSpaces(msg, p + Len(number)) IN
           /\ u <= Len(msg)
           /\ msg[u] = unit
           /\ \/ BoundaryAfter(msg, u)
              \/ /\ plural
                 /\ u + 1 <= Len(msg)
                 /\ msg[u + 1] = "s"
                 /\ BoundaryAfter(msg, u + 1)

InRange(days) == 1 <= days /\ days <= 30

\* line 773-802
parse_days_from_text(msg) ==
    LET d == SearchNumber(msg, "day")
        w == SearchNumber(msg, "week")
    IN  IF d # NoMatch /\ InRange(d) THEN d
        ELSE IF w # NoMatch /\ InRange(w * 7) THEN w * 7
        ELSE IF SearchWord(msg, <<"1">>, "month", FALSE) THEN 30
        ELSE IF SearchWord(msg, <<"3", "0">>, "day", TRUE) THEN 30
        ELSE None


\* ---- chat requests ----
\* the messages the chat client sends
Messages ==
    { <<" ">>,                          \* blank
      <<"kill">>,                       \* inappropriate
      <<"exit">>,                       \* exit command
      <<"x">>,                          \* about something else
      <<"fever">>,                      \* an acute condition
      <<"fat", "igue">>,                \* an acute condition, "fatigue"
      <<"diet">>,                       \* a diet question without a duration
      <<"3", "day", "s">>,              \* "3 days"
      <<"1", "week">> }                 \* "1 week"

\* not message.strip()   (line 1057)
is_blank(m) == strip(m) = <<>>

\* line 740-748
contains_inappropriate_content(m) == \E term \in InappropriateTerms : Contains(term, m)

\* message.lower() in ["exit", "quit", "bye", "goodbye"]   (line 1347)
is_exit(m) == m \in ExitCommands

\* line 50-82
is_diet_related_question(message) ==
    LET m == strip(message) IN
    \E keyword \in DietKeywords :
        \/ Contains(keyword, m)
        \/ Cardinality(Words(keyword)) > 1 /\ Words(keyword) \subseteq Words(m)

\* line 805-818
is_medical_emergency(m) == \E keyword \in EmergencyKeywords : Contains(keyword, m)

\* supported_days of line 1080 and 1396
supported_days == {7, 10, 14, 21, 30}

ChatReply(op, s, code, kind, retrieved, m, days, styled) ==
    [Reply(op, s, code, kind, NoTask, retrieved) EXCEPT
        !.msg = m, !.days = days, !.styled = styled]

\* mutant: the handlers do not look at the ingest task
IngestionIncomplete_NoGuard(s) == FALSE

\* mutant: only a batch still under way counts as incomplete
IngestionIncomplete_OnlyUnderWay(s) ==
    ingest_tasks[s].status \in {"queued", "in_progress"}

\* line 1068, 1356, 1611: the guard in front of every retrieval
IngestionIncomplete(s) ==
    ingest_tasks[s].status # "absent" /\ ingest_tasks[s].status # "completed"

\* os.path.exists(faiss_dir) and any(f.endswith('.index') ...)
HasIndex(s) == disk[s].faiss /\ disk[s].index # {}

\* sources KnowledgeBaseRetriever.__init__ loads: an index with its chunk file
LoadedSources(s) == disk[s].index \cap disk[s].chunks

\* retrieved_context after the retrieval block
ContextOf(s) == IF HasIndex(s) /\ LoadedSources(s) # {} THEN "full" ELSE "empty"

\* ---- POST /{id}/message ----
\* line 1081-1276 for a message that has passed the checks: what is answered
MessageAnswer(s, m) ==
    IF ~is_diet_related_question(m)
      THEN ChatReply("message", s, 200, "general", FALSE, m, None, FALSE)
    ELSE IF is_medical_emergency(m)
      THEN ChatReply("message", s, 200, "advice", FALSE, m, None, FALSE)
    ELSE LET requested_days == parse_days_from_text(m)
             styled == requested_days # None /\ requested_days \in supported_days
         IN  IF requested_days = None
               THEN ChatReply("message", s, 200, "answer", HasIndex(s), m,
                              requested_days, styled)
             ELSE IF InRange(requested_days)
               THEN ChatReply("message", s, 200, "plan", HasIndex(s), m,
                              requested_days, styled)
             ELSE ChatReply("message", s, 200, "unsupported_duration",
                            HasIndex(s), m, requested_days, styled)

send_message(s, m) ==
    /\ LoopFree
    /\ resp' =
         IF ~sessions[s].present
           THEN ChatReply("message", s, 404, "not_found", FALSE, m, None, FALSE)
         ELSE IF is_blank(m)
           THEN ChatReply("message", s, 400, "empty", FALSE, m, None, FALSE)
         ELSE IF contains_inappropriate_content(m)
           THEN ChatReply("message", s, 200, "inappropriate", FALSE, m, None, FALSE)
         ELSE IF IngestionIncomplete(s)
           THEN ChatReply("message", s, 400, "ingest_incomplete", FALSE, m, None, FALSE)
         ELSE MessageAnswer(s, m)
    /\ UNCHANGED <<sessions, ingest_tasks, disk, session_meta, coro, running,
                   created, logged_out, ws>>
    /\ UNCHANGED others

\* ---- POST /{id}/generate-diet-plan ----
\* duration_ok: map_duration_to_days knows the requested duration
generate_diet_plan(s, duration_ok) ==
    /\ LoopFree
    /\ resp' =
         IF ~sessions[s].present
           THEN Reply("plan", s, 404, "not_found", NoTask, FALSE)
         ELSE IF IngestionIncomplete(s)
           \* the HTTPException(400) is caught by line 1685 and re-raised as 500
           THEN Reply("plan", s, 500, "ingest_incomplete", NoTask, FALSE)
         ELSE IF ~duration_ok
           THEN Reply("plan", s, 400, "unsupported_duration", NoTask, HasIndex(s))
         ELSE Reply("plan", s, 200, "plan", NoTask, HasIndex(s))
    /\ UNCHANGED <<sessions, ingest_tasks, disk, session_meta, coro, running,
                   created, logged_out, ws>>
    /\ UNCHANGED others

\* ---- WS /ws/chat/{id} ----
\* line 1330-1336: accept, then the session check
ws_connect(s) ==
    /\ LoopFree
    /\ ws.pc = "closed"
    /\ IF ~sessions[s].present
       THEN /\ resp' = Reply("ws_connect", s, 4004, "not_found", NoTask, FALSE)
            /\ ws' = NoWs
       ELSE /\ resp' = Reply("ws_connect", s, 101, "accepted", NoTask, FALSE)
            /\ ws' = [sid |-> s, pc |-> "open", ctx |-> "undef", days |-> None]
    /\ UNCHANGED <<sessions, ingest_tasks, disk, session_meta, coro, running,
                   created, logged_out>>
    /\ UNCHANGED others

\* line 1341-1468: one received message, up to the first token sent;
\* raw is data.get("message", "") and message its strip()
ws_message(raw) ==
    /\ LoopFree
    /\ ws.pc = "open"
    /\ LET s == ws.sid
           m == strip(raw)
       IN
       IF is_exit(m)
         THEN /\ resp' = ChatReply("ws_message", s, 1000, "goodbye", FALSE, m,
                                   None, FALSE)
              /\ ws' = NoWs
       ELSE IF IngestionIncomplete(s)
         THEN /\ resp' = ChatReply("ws_message", s, 0, "ingest_incomplete", FALSE,
                                   m, None, FALSE)
              /\ ws' = ws
       ELSE IF ~sessions[s].present
         \* sessions[session_id] raises KeyError: line 1526-1529 closes
         THEN /\ resp' = ChatReply("ws_message", s, 1011, "internal_error", FALSE,
                                   m, None, FALSE)
              /\ ws' = NoWs
       ELSE IF ~is_diet_related_question(m)
         THEN IF ws.ctx = "undef"
              \* requested_days (line 1467) is unbound: NameError, line 1526-1529
              THEN /\ resp' = ChatReply("ws_message", s, 1011, "internal_error",
                                        FALSE, m, None, FALSE)
                   /\ ws' = NoWs
              \* line 1467 reads the requested_days of an earlier message
              ELSE /\ resp' = ChatReply("ws_message", s, 0, "general", FALSE, m,
                                        ws.days,
                                        ws.days # None /\ ws.days \in supported_days)
                   /\ ws' = [ws EXCEPT !.pc = "stream"]
       ELSE LET requested_days == parse_days_from_text(m)
                styled == requested_days # None /\ requested_days \in supported_days
                kind == IF requested_days = None THEN "answer"
                        ELSE IF requested_days \in supported_days THEN "plan"
                        ELSE "unsupported_duration"
            IN  /\ resp' = ChatReply("ws_message", s, 0, kind, HasIndex(s), m,
                                     requested_days, styled)
                /\ ws' = [ws EXCEPT !.pc = "stream", !.ctx = ContextOf(s),
                                    !.days = requested_days]
    /\ UNCHANGED <<sessions, ingest_tasks, disk, session_meta, coro, running,
                   created, logged_out>>
    /\ UNCHANGED others

\* line 1482-1515: after the awaits of the token loop, the sources are
\* retrieved again when retrieved_context is non-empty; the constructor lists
\* faiss_dir and raises (caught, line 1495) when the directory is gone
ws_finish ==
    /\ LoopFree
    /\ ws.pc = "stream"
    /\ resp' = Reply("ws_finish", ws.sid, 0, "message", NoTask,
                     ws.ctx = "full" /\ disk[ws.sid].faiss)
    /\ ws' = [ws EXCEPT !.pc = "open"]
    /\ UNCHANGED <<sessions, ingest_tasks, disk, session_meta, coro, running,
                   created, logged_out>>
    /\ UNCHANGED others

\* the client goes away: receive_json raises WebSocketDisconnect (line 1524)
ws_disconnect ==
    /\ LoopFree
    /\ ws.pc = "open"
    /\ ws' = NoWs
    /\ resp' = Reply("ws_disconnect", ws.sid, 0, "disconnected", NoTask, FALSE)
    /\ UNCHANGED <<sessions, ingest_tasks, disk, session_meta, coro, running,
                   created, logged_out>>
    /\ UNCHANGED others

\* Later uploads come one file at a time: the handler only adds the accepted
\* files to the directory, so a request with several files leaves the state
\* that single uploads of its files leave.
UploadBatches == { q \in Batches : Len(q) <= 1 }

Next ==
    \/ \E ok \in BOOLEAN :
         \E files \in (IF ok THEN Batches ELSE {<<>>}) :
            create_chat_session(files, ok)
    \/ \E s \in Sid : IngestStart(s)
    \/ \E s \in Sid : IngestFileBegin(s)
    \/ \E s \in Sid : IngestPdf(s)
    \/ \E s \in Sid : IngestImage(s)
    \/ \E s \in Sid : IngestComplete(s)
    \/ \E s \in Sid : IngestPersist(s)
    \/ \E s \in Sid : IngestExcept(s)
    \/ \E s \in Sid : get_ingest_status(s)
    \/ \E s \in Sid : logout_session(s)
    \/ \E s \in Sid :
         \E files \in (IF sessions[s].present THEN UploadBatches ELSE {<<>>}) :
            upload_additional_files(s, files)
    \/ Respond

Spec == Init /\ [][Next]_vars

\* ---- the same system with the chat client ----
ChatClients == 1    \* sessions the chat client creates

NextChat ==
    \/ /\ Cardinality(created) < ChatClients
       /\ \E ok \in BOOLEAN :
            \E files \in (IF ok THEN Batches ELSE {<<>>}) :
               create_chat_session(files, ok)
    \/ \E s \in Sid : IngestStart(s)
    \/ \E s \in Sid : IngestFileBegin(s)
    \/ \E s \in Sid : IngestPdf(s)
    \/ \E s \in Sid : IngestImage(s)
    \/ \E s \in Sid : IngestComplete(s)
    \/ \E s \in Sid : IngestPersist(s)
    \/ \E s \in Sid : IngestExcept(s)
    \/ \E s \in Sid : logout_session(s)
    \/ \E s \in Sid :
         \E files \in (IF sessions[s].present THEN UploadBatches ELSE {<<>>}) :
            upload_additional_files(s, files)
    \/ \E s \in Sid, m \in Messages : send_message(s, m)
    \/ \E s \in Sid, ok \in BOOLEAN : generate_diet_plan(s, ok)
    \/ \E s \in Sid : ws_connect(s)
    \/ \E m \in Messages : ws_message(m)
    \/ ws_finish
    \/ ws_disconnect
    \/ Respond

SpecChat == Init /\ [][NextChat]_vars

\* ---- session expiry ----
MaxClock == 4                  \* ticks the clock runs for
TickHours == 12
SESSION_TIMEOUT_HOURS == 24

\* current_time - created_time > timedelta(hours=SESSION_TIMEOUT_HOURS)
Expired(created_at) == (clock - created_at) * TickHours > SESSION_TIMEOUT_HOURS

\* time passes
Tick ==
    /\ clock < MaxClock
    /\ clock' = clock + 1
    /\ UNCHANGED <<sessions, ingest_tasks, disk, session_meta, coro, running,
                   created, logged_out, ws, resp, cleaned_at, kb, rt, pd>>

\* expired_sessions of line 181-203: only the ids of sessions/*.json files
ExpiredSessions ==
    { s \in Sid : session_meta[s].exists /\ Expired(session_meta[s].created_at) }

\* mutant: the in-memory sessions dict is scanned as well
ExpiredSessions_AllSessions ==
    { s \in Sid : \/ session_meta[s].exists /\ Expired(session_meta[s].created_at)
                  \/ sessions[s].present /\ Expired(sessions[s].created_at) }

\* cleanup_session_data applied to every id of S
CleanedUp(f, S, empty) == [s \in Sid |-> IF s \in S THEN empty ELSE f[s]]

\* periodic_cleanup (app.py) wakes up and calls cleanup_expired_sessions; it
\* is a coroutine of the same event loop.  One run per tick is kept: a second
\* run within the tick would find nothing the first did not.
cleanup_expired_sessions ==
    /\ LoopFree
    /\ cleaned_at # clock
    /\ cleaned_at' = clock
    /\ sessions' = CleanedUp(sessions, ExpiredSessions, NoSession)
    /\ ingest_tasks' = CleanedUp(ingest_tasks, ExpiredSessions, NoTask)
    /\ disk' = CleanedUp(disk, ExpiredSessions, EmptyDisk)
    /\ session_meta' = CleanedUp(session_meta, ExpiredSessions, NoMeta)
    /\ UNCHANGED <<coro, running, created, logged_out, ws, resp, clock, kb, rt,
                   pd>>

NextExpiry ==
    \/ /\ Cardinality(created) < ChatClients
       /\ \E ok \in BOOLEAN :
            \E files \in (IF ok THEN Batches ELSE {<<>>}) :
               create_chat_session(files, ok)
    \/ \E s \in Sid : IngestStart(s)
    \/ \E s \in Sid : IngestFileBegin(s)
    \/ \E s \in Sid : IngestPdf(s)
    \/ \E s \in Sid : IngestImage(s)
    \/ \E s \in Sid : IngestComplete(s)
    \/ \E s \in Sid : IngestPersist(s)
    \/ \E s \in Sid : IngestExcept(s)
    \/ Tick
    \/ cleanup_expired_sessions
    \/ Respond

SpecExpiry == Init /\ [][NextExpiry]_vars

\* ---- knowledge_base.py: text -> chunks -> index and chunk file ----
MaxTextLen == 6                \* characters of an extracted text
MaxTokens == 2                 \* largest max_tokens tried (the code passes 400)

\* A text is a sequence of characters: a word character, a sentence
\* terminator, a space and a newline.  The chunk separator "\n---\n" cannot
\* occur in such a text.
Chars == {"w", ".", " ", "\n"}
Terminators == {"."}           \* [.!?]
Texts == UNION { [1..k -> Chars] : k \in 0..MaxTextLen }

\* len(x.split()): the maximal runs of non-whitespace characters
WordCount(x) ==
    Cardinality({ i \in 1..Len(x) :
                    /\ x[i] \notin Whitespace
                    /\ (i = 1 \/ x[i - 1] \in Whitespace) })

\* re.split(r'(?<=[.!?]) +', text), scanning from position i with the piece
\* acc collected so far: a run of spaces right after a terminator separates
RECURSIVE SplitFrom(_, _, _)
SplitFrom(text, i, acc) ==
    IF i > Len(text) THEN <<acc>>
    ELSE IF text[i] = " " /\ i > 1 /\ text[i - 1] \in Terminators
    THEN LET rest == { j \in i..Len(text) : text[j] # " " }
             j == IF rest = {} THEN Len(text) + 1
                  ELSE CHOOSE a \in rest : \A b \in rest : a <= b
         IN  <<acc>> \o SplitFrom(text, j, <<>>)
    ELSE SplitFrom(text, i + 1, Append(acc, text[i]))

re_split(text) == SplitFrom(text, 1, <<>>)

\* mutant: the sentence that overflows is not carried into the next chunk
ChunkStep_DropOverflow(st, sentence, max_tokens) ==
    IF WordCount(st.chunk \o sentence) > max_tokens
    THEN [chunk |-> <<>>, chunks |-> Append(st.chunks, strip(st.chunk))]
    ELSE [chunk |-> st.chunk \o <<" ">> \o sentence, chunks |-> st.chunks]

\* line 26-30: one turn of the loop over the sentences
ChunkStep(st, sentence, max_tokens) ==
    IF WordCount(st.chunk \o sentence) > max_tokens
    THEN [chunk |-> sentence, chunks |-> Append(st.chunks, strip(st.chunk))]
    ELSE [chunk |-> st.chunk \o <<" ">> \o sentence, chunks |-> st.chunks]

RECURSIVE ChunkLoop(_, _, _, _)
ChunkLoop(sentences, k, st, max_tokens) ==
    IF k > Len(sentences) THEN st
    ELSE ChunkLoop(sentences, k + 1,
                   ChunkStep(st, sentences[k], max_tokens), max_tokens)

\* line 20-33
chunk_text(text, max_tokens) ==
    LET st == ChunkLoop(re_split(text), 1,
                        [chunk |-> <<>>, chunks |-> <<>>], max_tokens)
    IN  IF st.chunk # <<>> THEN Append(st.chunks, strip(st.chunk))
        ELSE st.chunks

\* embed_chunks: one vector per chunk, in order; a vector is known by the
\* text it was computed from
embed_chunks(chunks) == [i \in 1..Len(chunks) |-> [of |-> chunks[i]]]

Separator == <<"\n", "-", "-", "-", "\n">>

\* line 58-60: every chunk followed by the separator
RECURSIVE WriteChunks(_, _)
WriteChunks(chunks, k) ==
    IF k > Len(chunks) THEN <<>>
    ELSE chunks[k] \o Separator \o WriteChunks(chunks, k + 1)

\* str.split('\n---\n') from position i with the piece acc collected so far
RECURSIVE SplitSep(_, _, _)
SplitSep(data, i, acc) ==
    IF i > Len(data) THEN <<acc>>
    ELSE IF i + Len(Separator) - 1 <= Len(data)
            /\ SubSeq(data, i, i + Len(Separator) - 1) = Separator
    THEN <<acc>> \o SplitSep(data, i + Len(Separator), <<>>)
    ELSE SplitSep(data, i + 1, Append(acc, data[i]))

NonEmpty(x) == x # <<>>

StripAll(pieces) == [i \in 1..Len(pieces) |-> strip(pieces[i])]

\* retriever.py line 31: [c.strip() for c in data.split('\n---\n') if c.strip()]
ReadChunks(data) == SelectSeq(StripAll(SplitSep(data, 1, <<>>)), NonEmpty)

KbInputs ==
    { [pc |-> "input", text |-> x, max_tokens |-> m, chunks |-> <<>>,
       index |-> <<>>, chunk_file |-> <<>>, loaded |-> <<>>] :
         x \in Texts, m \in 1..MaxTokens }

InitKb ==
    /\ ServerInit
    /\ clock = 0
    /\ cleaned_at = NeverCleaned
    /\ kb \in KbInputs
    /\ rt = NoRt
    /\ pd = NoPd

KbFrame ==
    UNCHANGED <<sessions, ingest_tasks, disk, session_meta, coro, running,
                created, logged_out, ws, resp, clock, cleaned_at, rt, pd>>

\* process_pdf_to_faiss line 54 / chatbot.py line 550
KbChunk ==
    /\ kb.pc = "input"
    /\ kb' = [kb EXCEPT !.pc = "chunked",
                        !.chunks = chunk_text(kb.text, kb.max_tokens)]
    /\ KbFrame

\* process_pdf_to_faiss line 55-60 / chatbot.py line 551-561
KbStore ==
    /\ kb.pc = "chunked"
    /\ kb' = [kb EXCEPT !.pc = "stored",
                        !.index = embed_chunks(kb.chunks),
                        !.chunk_file = WriteChunks(kb.chunks, 1)]
    /\ KbFrame

\* KnowledgeBaseRetriever.__init__ line 28-33 on the pair just written
KbLoad ==
    /\ kb.pc = "stored"
    /\ kb' = [kb EXCEPT !.pc = "loaded", !.loaded = ReadChunks(kb.chunk_file)]
    /\ KbFrame

NextKb == KbChunk \/ KbStore \/ KbLoad

SpecKb == InitKb /\ [][NextKb]_vars

\* ---- uploads whose names differ only in the extension ----
\* base_name (line 534) is the file name without its extension, so report.pdf
\* and report.png are two files of a batch with the one base name "a".
SameBaseFiles ==
    { [base |-> "a", ext |-> "pdf", valid |-> TRUE],
      [base |-> "a", ext |-> "png", valid |-> TRUE],
      [base |-> "b", ext |-> "pdf", valid |-> TRUE] }

SameBaseBatches ==
    UNION { { q \in [1..k -> SameBaseFiles] :
                \A x, y \in 1..k : x # y => q[x] # q[y] } : k \in 0..MaxFiles }

NextSources ==
    \/ /\ Cardinality(created) < ChatClients
       /\ \E files \in SameBaseBatches : create_chat_session(files, TRUE)
    \/ \E s \in Sid : IngestStart(s)
    \/ \E s \in Sid : IngestFileBegin(s)
    \/ \E s \in Sid : IngestPdf(s)
    \/ \E s \in Sid : IngestImage(s)
    \/ \E s \in Sid : IngestComplete(s)
    \/ \E s \in Sid : IngestPersist(s)
    \/ \E s \in Sid : IngestExcept(s)
    \/ Respond

SpecSources == Init /\ [][NextSources]_vars

\* ---- retriever.py: one retrieval against one faiss directory ----
MaxPassages == 2               \* vectors of an index, passages of a chunk file
MaxTopK == 2                   \* largest top_k tried (the handlers pass 3 and 5)

Sources == {"A", "B"}          \* base names in the directory
Dist == {1, 2, 3}              \* L2 distances of the query to a vector
INF == 9                       \* distance faiss reports for a missing neighbour
NoPassage == -1                \* the vector of an empty chunk, which no loaded
                               \* passage stands for

Injective(q) == \A x, y \in DOMAIN q : x # y => q[x] # q[y]

\* The vectors of one index file, in insertion order.  Vector j (0-based) was
\* computed from chunk j of the text; `of` is the ordinal of that chunk among
\* the passages read back from the chunk file: j itself, or j - 1 when the first
\* chunk was empty and is dropped on reading.  Distances within an index are
\* pairwise different, so the order of a search result is determined.
VectorSeqs ==
    UNION { { [j \in 1..v |-> [d |-> ds[j], of |-> j - 1 - shift]] :
                ds \in { q \in [1..v -> Dist] : Injective(q) },
                shift \in {0, 1} } : v \in 1..MaxPassages }

IndexFiles ==
    { [kind |-> "absent", vecs |-> <<>>], [kind |-> "malformed", vecs |-> <<>>] }
    \cup { [kind |-> "ok", vecs |-> vs] : vs \in VectorSeqs }

\* a chunk file: n is the number of passages ReadChunks gets from it
ChunkFiles ==
    { [kind |-> "absent", n |-> 0], [kind |-> "malformed", n |-> 0] }
    \cup { [kind |-> "ok", n |-> n] : n \in 0..MaxPassages }

NoFiles == [index |-> [kind |-> "absent", vecs |-> <<>>],
            chunks |-> [kind |-> "absent", n |-> 0]]

FaissDirs ==
    { [exists |-> FALSE, src |-> [s \in Sources |-> NoFiles]] }
    \cup { [exists |-> TRUE, src |-> f] :
             f \in [Sources -> [index : IndexFiles, chunks : ChunkFiles]] }

\* os.listdir returns the names in an order of its own
ListingOrders == { q \in [1..Cardinality(Sources) -> Sources] : Injective(q) }

Returned(v) == [raised |-> "", value |-> v]
Raised(e) == [raised |-> e, value |-> <<>>]

\* line 23-33, from the k-th name of the listing on
RECURSIVE LoadFrom(_, _, _, _)
LoadFrom(dir, order, k, loaded) ==
    IF k > Len(order) THEN Returned(loaded)
    ELSE LET s == order[k]
             f == dir.src[s]
         IN  IF f.index.kind = "absent" \/ f.chunks.kind = "absent"
             THEN LoadFrom(dir, order, k + 1, loaded)
             ELSE IF f.index.kind = "malformed"
             THEN Raised("RuntimeError")              \* faiss.read_index
             ELSE IF f.chunks.kind = "malformed"
             THEN Raised("UnicodeDecodeError")        \* f.read()
             ELSE LoadFrom(dir, order, k + 1,
                           Append(loaded, [source |-> s, vecs |-> f.index.vecs,
                                           n |-> f.chunks.n]))

\* KnowledgeBaseRetriever(faiss_dir)
KnowledgeBaseRetriever(dir, order) ==
    IF ~dir.exists THEN Raised("FileNotFoundError")   \* os.listdir
    ELSE LoadFrom(dir, order, 1, <<>>)

\* id (0-based) of the vector with the r-th smallest distance
Nearest(vecs, r) ==
    CHOOSE j \in 1..Len(vecs) :
        Cardinality({ i \in 1..Len(vecs) : vecs[i].d < vecs[j].d }) = r - 1

\* index.search(query_emb, k) for k >= 1: the k nearest, padded with id -1
search(vecs, k) ==
    [r \in 1..k |->
        IF r <= Len(vecs)
        THEN [i |-> Nearest(vecs, r) - 1, d |-> vecs[Nearest(vecs, r)].d]
        ELSE [i |-> -1, d |-> INF]]

\* line 39-46 for one source: chunks[i] counts a negative i from the end and
\* raises IndexError beyond the list; search with k = 0 raises in the faiss
\* releases that assert k > 0 and returns nothing in the others
SourceResults(src, top_k, k0_asserts) ==
    LET k == IF top_k <= src.n THEN top_k ELSE src.n IN
    IF k = 0
    THEN IF k0_asserts THEN Raised("AssertionError") ELSE Returned(<<>>)
    ELSE LET hits == search(src.vecs, k) IN
         IF \E r \in 1..k : hits[r].i >= src.n
         THEN Raised("IndexError")
         ELSE Returned([r \in 1..k |->
                 [chunk |-> <<src.source,
                              IF hits[r].i < 0 THEN src.n + hits[r].i
                                               ELSE hits[r].i>>,
                  score |-> hits[r].d,
                  source |-> src.source,
                  rank |-> r]])

\* line 38-46: all_results, source after source
RECURSIVE Gather(_, _, _, _, _)
Gather(loaded, k, top_k, k0_asserts, all_results) ==
    IF k > Len(loaded) THEN Returned(all_results)
    ELSE LET one == SourceResults(loaded[k], top_k, k0_asserts) IN
         IF one.raised # "" THEN one
         ELSE Gather(loaded, k + 1, top_k, k0_asserts, all_results \o one.value)

\* list.sort(key=score) is stable: an element goes behind every element of
\* the sorted part whose score is not larger
InsertSorted(sorted, x) ==
    LET before == Cardinality({ i \in 1..Len(sorted) : sorted[i].score <= x.score })
    IN  SubSeq(sorted, 1, before) \o <<x>> \o SubSeq(sorted, before + 1, Len(sorted))

RECURSIVE SortByScore(_, _, _)
SortByScore(list, k, sorted) ==
    IF k > Len(list) THEN sorted
    ELSE SortByScore(list, k + 1, InsertSorted(sorted, list[k]))

FirstN(list, n) == SubSeq(list, 1, IF n <= Len(list) THEN n ELSE Len(list))

\* mutant: the sorted list is returned whole
retrieve_NoTruncate(loaded, top_k, k0_asserts) ==
    LET got == Gather(loaded, 1, top_k, k0_asserts, <<>>) IN
    IF got.raised # "" THEN [got EXCEPT !.value = [all |-> <<>>, results |-> <<>>]]
    ELSE Returned([all |-> got.value,
                   results |-> SortByScore(got.value, 1, <<>>)])

\* line 35-49; `all` is all_results before the sort
retrieve(loaded, top_k, k0_asserts) ==
    LET got == Gather(loaded, 1, top_k, k0_asserts, <<>>) IN
    IF got.raised # "" THEN [got EXCEPT !.value = [all |-> <<>>, results |-> <<>>]]
    ELSE Returned([all |-> got.value,
                   results |-> FirstN(SortByScore(got.value, 1, <<>>), top_k)])

\* KnowledgeBaseRetriever(faiss_dir).retrieve(query, top_k)
Retrieval(dir, order, top_k, k0_asserts) ==
    LET kbr == KnowledgeBaseRetriever(dir, order) IN
    IF kbr.raised # ""
    THEN [raised |-> kbr.raised, loaded |-> <<>>, all |-> <<>>, results |-> <<>>]
    ELSE LET got == retrieve(kbr.value, top_k, k0_asserts) IN
         [raised |-> got.raised, loaded |-> kbr.value,
          all |-> got.value.all, results |-> got.value.results]

NotCalled == [raised |-> "", loaded |-> <<>>, all |-> <<>>, results |-> <<>>]

\* any(f.endswith('.index') for f in os.listdir(faiss_dir))
AnyIndexFile(dir) ==
    \E s \in Sources : dir.src[s].index.kind # "absent"

\* mutant: the directory is listed without asking whether it exists
RetrieveContext_NoExistsCheck(dir, order, top_k, k0_asserts) ==
    IF ~dir.exists
    THEN [outcome |-> "raised", call |-> NotCalled, results |-> <<>>]
    ELSE IF ~AnyIndexFile(dir)
    THEN [outcome |-> "skipped", call |-> NotCalled, results |-> <<>>]
    ELSE LET call == Retrieval(dir, order, top_k, k0_asserts) IN
         IF call.raised # ""
         THEN [outcome |-> "caught", call |-> call, results |-> <<>>]
         ELSE [outcome |-> "ok", call |-> call, results |-> call.results]

\* chatbot.py line 1098-1105 (and 1378-1384, 1619-1625): the retrieval block
\* of a handler; outcome "raised" is an exception that leaves the block
RetrieveContext(dir, order, top_k, k0_asserts) ==
    IF ~dir.exists \/ ~AnyIndexFile(dir)
    THEN [outcome |-> "skipped", call |-> NotCalled, results |-> <<>>]
    ELSE LET call == Retrieval(dir, order, top_k, k0_asserts) IN
         IF call.raised # ""
         THEN [outcome |-> "caught", call |-> call, results |-> <<>>]
         ELSE [outcome |-> "ok", call |-> call, results |-> call.results]

RtInputs ==
    { [pc |-> "input", dir |-> dir, top_k |-> k, order |-> <<>>,
       ctx |-> [outcome |-> "none", call |-> NotCalled, results |-> <<>>]] :
         dir \in FaissDirs, k \in 1..MaxTopK }

InitRt ==
    /\ ServerInit
    /\ clock = 0
    /\ cleaned_at = NeverCleaned
    /\ kb = NoKb
    /\ rt \in RtInputs
    /\ pd = NoPd

\* a handler reaches its retrieval block
RtRetrieve ==
    /\ rt.pc = "input"
    /\ \E order \in ListingOrders, k0_asserts \in BOOLEAN :
          rt' = [rt EXCEPT !.pc = "done", !.order = order,
                           !.ctx = RetrieveContext(rt.dir, order, rt.top_k,
                                                   k0_asserts)]
    /\ UNCHANGED <<sessions, ingest_tasks, disk, session_meta, coro, running,
                   created, logged_out, ws, resp, clock, cleaned_at, kb, pd>>

NextRt == RtRetrieve

SpecRt == InitRt /\ [][NextRt]_vars

\* ---- parse_days_from_text on one message ----
MaxMsgLen == 4                 \* pieces of a message

DurationPieces == Digits \cup {" ", "day", "s", "week", "month", "x"}
DurationMsgs == UNION { [1..k -> DurationPieces] : k \in 0..MaxMsgLen }

InitDays ==
    /\ ServerInit
    /\ clock = 0
    /\ cleaned_at = NeverCleaned
    /\ kb = NoKb
    /\ rt = NoRt
    /\ pd \in { [pc |-> "input", msg |-> m, days |-> None] : m \in DurationMsgs }

\* requested_days = parse_days_from_text(message_lower)   (line 1092, 1395)
PdParse ==
    /\ pd.pc = "input"
    /\ pd' = [pd EXCEPT !.pc = "done", !.days = parse_days_from_text(pd.msg)]
    /\ UNCHANGED <<sessions, ingest_tasks, disk, session_meta, coro, running,
                   created, logged_out, ws, resp, clock, cleaned_at, kb, rt>>

NextDays == PdParse

SpecDays == InitDays /\ [][NextDays]_vars

\* ======================= claims =======================

Terminal == {"completed", "failed"}

\* status changes the lifecycle allows; a task may also be removed by cleanup
LegalStatusSteps ==
    { <<"absent", "queued">>, <<"absent", "completed">>,
      <<"absent", "in_progress">>, <<"queued", "in_progress">>,
      <<"in_progress", "completed">>, <<"in_progress", "failed">>,
      <<"completed", "in_progress">>, <<"failed", "in_progress">> }

FreshInProgress == Task("in_progress", Detail("starting", 0, 0, ""), NoPercent)

\* C1: a task's status moves only along queued -> in_progress -> completed or
\* failed, and a task in a terminal status is changed by no step other than
\* the start of a new batch (or its removal with the session): in particular
\* completed never turns into failed.
C1_StatusLifecycle ==
    [][\A s \in Sid :
         LET old == ingest_tasks[s]
             new == ingest_tasks'[s]
         IN  /\ old.status # new.status =>
                   \/ new.status = "absent"
                   \/ <<old.status, new.status>> \in LegalStatusSteps
             /\ (old.status \in Terminal /\ new # old) =>
                   new.status = "absent" \/ new = FreshInProgress]_vars

\* C2: no chat request runs a retrieval for a session whose ingest task is
\* queued, in_progress or failed; in those states the request is turned away.
TurnedAway ==
    {"not_found", "empty", "inappropriate", "ingest_incomplete", "goodbye"}

ChatOps == {"message", "plan", "ws_message", "ws_finish"}

C2_NoRetrievalBeforeCompleted ==
    resp.op \in ChatOps =>
       /\ resp.retrieved => ingest_tasks[resp.sid].status = "completed"
       /\ ingest_tasks[resp.sid].status \in {"queued", "in_progress", "failed"}
             => resp.kind \in TurnedAway

\* C2 witness: a request was turned away as "ingestion not complete" although
\* the session's directory already holds an index a retrieval could load.
C2_Witness ==
    /\ resp.op \in ChatOps
    /\ resp.kind = "ingest_incomplete"
    /\ HasIndex(resp.sid)

\* C3: while a batch is in progress the coordinator yields, so a status poll
\* (for this or any other session) can be served before the batch ends.
C3_PollServedWhileRunning ==
    \A s \in Sid :
        ingest_tasks[s].status = "in_progress" =>
            \A t \in Sid : ENABLED get_ingest_status(t)

\* C4: a task that is completed as the result of a file batch has percent 100
\* and the session's metadata record has been persisted.
C4_CompletedImpliesPersisted ==
    \A s \in Sid :
        (ingest_tasks[s].status = "completed"
            /\ ingest_tasks[s].detail.kind = "success")
        => (ingest_tasks[s].percent = 100 /\ session_meta[s].exists)

\* the batch-level handler runs: the coroutine leaves "except" and returns
HandlerStep(s) == coro[s].pc = "except" /\ coro'[s].pc = "done"

\* C5 (as claimed): on an unrecovered exception the task becomes failed with
\* the exception's text in detail and percent keeps its previous value.
C5_FailedKeepsPercent ==
    [][\A s \in Sid :
         HandlerStep(s) =>
            /\ ingest_tasks'[s].status = "failed"
            /\ ingest_tasks'[s].detail = Detail("failed", 0, 0, coro[s].exc)
            /\ ingest_tasks'[s].percent = ingest_tasks[s].percent]_vars

\* C5 (amended): on an unrecovered exception the task becomes failed with the
\* exception's text in detail and percent is reset to 0.
C5_FailedResetsPercent ==
    [][\A s \in Sid :
         HandlerStep(s) =>
            /\ ingest_tasks'[s].status = "failed"
            /\ ingest_tasks'[s].detail = Detail("failed", 0, 0, coro[s].exc)
            /\ ingest_tasks'[s].percent = 0]_vars

\* C5 witness: a batch failed on its second file (percent had been 50), the
\* task is failed with the exception text and percent 0.
C5_Witness ==
    \E s \in Sid :
        /\ ingest_tasks[s] = Task("failed", Detail("failed", 0, 0, "ExtractError"), 0)
        /\ disk[s].chunks \cup disk[s].ocr # {}

\* outputs of a file of the batch in the directory tree d of its session
Processed(d, f) ==
    IF f.ext = "pdf" THEN f.base \in d.chunks
                     ELSE f.base \in d.chunks \cup d.ocr

Touched(d, f) == f.base \in d.index \cup d.chunks \cup d.ocr

\* C6: when the batch returns and its first file without output is a PDF
\* (processing it raised), the task is failed, no later file of the batch has
\* been processed and no session metadata has been written.
C6_PdfFailureFailsBatch ==
    [][\A s \in Sid :
         (coro[s].pc \in {"persist", "except"} /\ coro'[s].pc = "done") =>
            LET files == coro[s].files IN
            \A k \in 1..Len(files) :
               ( /\ files[k].ext = "pdf"
                 /\ ~Processed(disk'[s], files[k])
                 /\ \A j \in 1..(k - 1) : Processed(disk'[s], files[j]) )
               => /\ ingest_tasks'[s].status = "failed"
                  /\ ~session_meta'[s].exists
                  /\ \A j \in (k + 1)..Len(files) : ~Touched(disk'[s], files[j])]_vars

\* C6 witness: a PDF that is not the last file of its batch has raised.
C6_Witness ==
    \E s \in Sid :
        /\ coro[s].pc = "except"
        /\ coro[s].cause = "pdf"
        /\ coro[s].i + 1 < Len(coro[s].files)

\* C7: a failure while processing an image never reaches the batch-level
\* handler, so it cannot abort the batch.
C7_ImageFailureCaught ==
    \A s \in Sid : ~(coro[s].pc = "except" /\ coro[s].cause = "image")

\* C8: an upload of accepted files to an existing session starts a new batch:
\* the task is reset to in_progress (or the batch is at least scheduled).
C8_UploadStartsBatch ==
    [][\A s \in Sid :
         ( /\ resp = NoResp
           /\ resp'.op = "upload" /\ resp'.sid = s /\ resp'.code = 200
           /\ disk'[s].uploads # {} )
         => \/ ingest_tasks'[s] = FreshInProgress
            \/ coro'[s].pc = "pending"]_vars

\* C9: a status poll for an id no session was ever created with answers
\* not-found (no crash) and changes neither sessions nor ingest_tasks.
C9_UnknownPollNotFound ==
    [][\A s \in Sid \ created :
         (resp = NoResp /\ resp'.op = "status" /\ resp'.sid = s)
         => /\ resp'.code = 404
            /\ resp'.kind = "not_found"
            /\ sessions' = sessions
            /\ ingest_tasks' = ingest_tasks]_vars

\* C9 witness: such a poll has been answered.
C9_Witness ==
    /\ resp.op = "status"
    /\ resp.sid \notin created
    /\ resp.code = 404

\* C10: once logout_session(S) has returned success, S's session record,
\* ingest task, upload directory and metadata file are absent for good.
C10_LoggedOutStaysClean ==
    \A s \in logged_out :
        /\ ~sessions[s].present
        /\ ingest_tasks[s] = NoTask
        /\ disk[s] = EmptyDisk
        /\ ~session_meta[s].exists

\* C11: right after a run of cleanup_expired_sessions no session is left whose
\* creation time lies more than SESSION_TIMEOUT_HOURS in the past, whatever its
\* ingestion came to.
C11_ExpiredSessionsRemoved ==
    \A s \in Sid :
        (cleaned_at = clock /\ sessions[s].present)
        => ~Expired(sessions[s].created_at)

\* C12: for a source loaded from what ingestion wrote, the index holds as
\* many vectors as there are loaded passages and the vector at ordinal i was
\* computed from the passage at ordinal i.
C12_IndexMatchesPassages ==
    kb.pc = "loaded" =>
        /\ Len(kb.index) = Len(kb.loaded)
        /\ \A i \in 1..Len(kb.index) :
              i <= Len(kb.loaded) /\ kb.index[i].of = kb.loaded[i]

\* C13: when a batch of N files has completed and every file was indexed (no
\* file fell back to the OCR record), the session's collection holds N
\* sources: no file's index and passages were overwritten by another file's.
C13_OneSourcePerFile ==
    \A s \in Sid :
        ( /\ ingest_tasks[s].status = "completed"
          /\ ingest_tasks[s].detail.kind = "success"
          /\ disk[s].ocr = {} )
        => Cardinality(LoadedSources(s)) = ingest_tasks[s].detail.n

SortedPos(c, p) ==
    1 + Cardinality({ q \in 1..Len(c) :
                        \/ c[q].score < c[p].score
                        \/ c[q].score = c[p].score /\ q < p })

\* a loaded source as ingestion leaves it: every loaded passage has its vector
AsIngested(src) ==
    /\ src.n >= 1
    /\ { src.vecs[j].of : j \in 1..Len(src.vecs) } \ {NoPassage} = 0..(src.n - 1)

\* distance of the query to the vector computed from passage <<source, ordinal>>
PassageDist(loaded, chunk) ==
    LET src == CHOOSE l \in RangeOf(loaded) : l.source = chunk[1]
        j == CHOOSE j \in 1..Len(src.vecs) : src.vecs[j].of = chunk[2]
    IN  src.vecs[j].d

AllPassages(loaded) ==
    UNION { { <<loaded[k].source, o>> : o \in 0..(loaded[k].n - 1) } :
              k \in 1..Len(loaded) }

\* C15: the results are the candidates of all sources in ascending order of
\* distance, equal distances in concatenation order, cut to top_k; and with
\* top_k = 1 and two sources the one result is the passage nearest to the
\* query among the passages of both sources.
C15_MergedByDistance ==
    (rt.pc = "done" /\ rt.ctx.outcome = "ok") =>
        LET c == rt.ctx.call.all
            res == rt.ctx.call.results
            loaded == rt.ctx.call.loaded
        IN  /\ Len(res) = (IF rt.top_k <= Len(c) THEN rt.top_k ELSE Len(c))
            /\ \A p \in 1..Len(c) :
                  SortedPos(c, p) <= rt.top_k => res[SortedPos(c, p)] = c[p]
            /\ ( /\ rt.top_k = 1
                 /\ Len(loaded) = 2
                 /\ \A k \in 1..Len(loaded) : AsIngested(loaded[k]) )
               => /\ Len(res) = 1
                  /\ \A ps \in AllPassages(loaded) :
                        PassageDist(loaded, res[1].chunk) <= PassageDist(loaded, ps)

\* a pair that cannot be loaded / a pair that can
Unloadable(f) ==
    /\ f.index.kind # "absent"
    /\ \/ f.index.kind = "malformed"
       \/ f.chunks.kind \in {"absent", "malformed"}
       \/ Len(f.index.vecs) # f.chunks.n

Loadable(f) ==
    /\ f.index.kind = "ok"
    /\ f.chunks.kind = "ok"
    /\ Len(f.index.vecs) = f.chunks.n

\* C16: a source whose pair cannot be loaded is skipped when the collection is
\* built: no error comes out of the build, the source contributes no result
\* and every loadable source of the directory is loaded.
C16_BadSourceSkipped ==
    (rt.pc = "done" /\ rt.dir.exists) =>
        \A s \in Sources :
            Unloadable(rt.dir.src[s]) =>
                /\ rt.ctx.outcome # "caught"
                /\ \A r \in 1..Len(rt.ctx.results) : rt.ctx.results[r].source # s
                /\ \A u \in Sources :
                      Loadable(rt.dir.src[u]) =>
                         \E k \in 1..Len(rt.ctx.call.loaded) :
                            rt.ctx.call.loaded[k].source = u

\* directory absent, no sources, a source with zero passages, or an index
\* file without its passages file
PartialCollection(dir) ==
    \/ ~dir.exists
    \/ ~AnyIndexFile(dir)
    \/ \E s \in Sources :
          /\ dir.src[s].index.kind = "ok"
          /\ \/ dir.src[s].chunks.kind = "absent"
             \/ dir.src[s].chunks.kind = "ok" /\ dir.src[s].chunks.n = 0

NormSentences(x) == SelectSeq(StripAll(re_split(x)), NonEmpty)

\* the chunks concatenated in order with single spaces
RECURSIVE JoinSpaces(_, _)
JoinSpaces(chunks, k) ==
    IF k > Len(chunks) THEN <<>>
    ELSE IF k = Len(chunks) THEN chunks[k]
    ELSE chunks[k] \o <<" ">> \o JoinSpaces(chunks, k + 1)

\* C18: no chunk has more than max_tokens words, except a chunk that is one
\* single sentence which alone has more than max_tokens words.
C18_ChunkWithinLimit ==
    kb.pc # "input" =>
        \A i \in 1..Len(kb.chunks) :
            \/ WordCount(kb.chunks[i]) <= kb.max_tokens
            \/ Len(NormSentences(kb.chunks[i])) = 1

\* C19: the empty text gives no chunk, a text that is one sentence longer
\* than max_tokens gives that sentence as a chunk, and no chunk is empty.
C19_NoEmptyChunk ==
    kb.pc # "input" =>
        /\ kb.text = <<>> => kb.chunks = <<>>
        /\ \A i \in 1..Len(kb.chunks) : kb.chunks[i] # <<>>
        /\ LET ss == NormSentences(kb.text) IN
           (Len(ss) = 1 /\ WordCount(ss[1]) > kb.max_tokens)
              => \E i \in 1..Len(kb.chunks) : kb.chunks[i] = ss[1]

\* C20: the chunks joined with single spaces hold the sentences of the text,
\* each exactly once and in the order of the text.
C20_SentencesPreserved ==
    kb.pc # "input" =>
        NormSentences(JoinSpaces(kb.chunks, 1)) = NormSentences(kb.text)

\* C20 witness: a text of several sentences came out as several non-empty
\* chunks, one of them holding more than one sentence.
C20_Witness ==
    /\ kb.pc # "input"
    /\ Len(kb.chunks) >= 2
    /\ \A i \in 1..Len(kb.chunks) : kb.chunks[i] # <<>>
    /\ \E i \in 1..Len(kb.chunks) : Len(NormSentences(kb.chunks[i])) >= 2

\* values of the counts the message gives with a unit: every maximal run of
\* digits that is followed, after optional spaces, by the unit
CountsOf(msg, unit) ==
    { IntOf(SubSeq(msg, p, RunEnd(msg, p))) :
        p \in { a \in 1..Len(msg) :
                  /\ MatchesAt(msg, a, unit)
                  /\ (a = 1 \/ msg[a - 1] \notin Digits) } }

DayCounts(msg) == { n \in CountsOf(msg, "day") : InRange(n) }
WeekCounts(msg) == { 7 * w : w \in { v \in CountsOf(msg, "week") : InRange(7 * v) } }

\* C21: parse_days_from_text returns N for a message that holds "N day(s)"
\* with 1 <= N <= 30, 7*W for "W week(s)" with 7*W <= 30, 30 for "1 month"
\* and None for a message without a duration; it returns nothing outside
\* 1..30.
C21_ParseDays ==
    pd.pc = "done" =>
        /\ pd.days = None \/ InRange(pd.days)
        /\ DayCounts(pd.msg) # {} => pd.days \in DayCounts(pd.msg)
        /\ (DayCounts(pd.msg) = {} /\ WeekCounts(pd.msg) # {})
              => pd.days \in WeekCounts(pd.msg)
        /\ ( /\ DayCounts(pd.msg) = {} /\ WeekCounts(pd.msg) = {}
             /\ SearchWord(pd.msg, <<"1">>, "month", FALSE) )
              => pd.days = 30
        /\ ( /\ CountsOf(pd.msg, "day") = {} /\ CountsOf(pd.msg, "week") = {}
             /\ CountsOf(pd.msg, "month") = {} )
              => pd.days = None

\* replies of send_message to a message that has passed its checks
Answered == {"general", "advice", "answer", "plan", "unsupported_duration"}

\* C22: a message that reports an acute condition (is_medical_emergency) is
\* diet-related (is_diet_related_question), so send_message answers it with
\* the quick medical advice and never with the out-of-scope response; a
\* message without any diet or health keyword is not diet-related and gets
\* the out-of-scope response.
C22_EmergencyIsDietRelated ==
    (resp.op = "message" /\ resp.kind \in Answered) =>
        /\ is_medical_emergency(resp.msg) =>
              /\ is_diet_related_question(resp.msg)
              /\ resp.kind = "advice"
        /\ (\A kw \in DietKeywords \cup EmergencyKeywords : ~Contains(kw, resp.msg))
              => /\ ~is_diet_related_question(resp.msg)
                 /\ resp.kind = "general"

\* C23: when the i-th of N files (i from 1) of a batch has begun, the task's
\* detail is "Processing file i/N" and its percent is floor(i/N * 100), with
\* the same i in both.
C23_ProgressFields ==
    \A s \in Sid :
        (running = s /\ coro[s].pc = "file") =>
            LET i == coro[s].i + 1
                n == Len(coro[s].files)
            IN  /\ ingest_tasks[s].detail = Detail("processing", i, n, "")
                /\ ingest_tasks[s].percent = (i * 100) \div n

\* the batch of s is between its start and its return
InBatch(c) == c.pc \in {"loop", "file", "persist", "except"}

\* C24: the files of a batch are processed one at a time in the order they
\* were submitted (a file's output appears only while it is the current file,
\* and the current file advances by one), and percent does not decrease from
\* a state to the next while the task is not in a terminal state.
C24_InOrderMonotone ==
    [][\A s \in Sid :
         /\ (InBatch(coro[s]) /\ InBatch(coro'[s]) /\ coro'[s].i # coro[s].i)
               => /\ coro[s].pc = "file"
                  /\ coro'[s].i = coro[s].i + 1
         /\ InBatch(coro[s]) =>
               \A k \in 1..Len(coro[s].files) :
                  ( /\ Touched(disk'[s], coro[s].files[k])
                    /\ ~Touched(disk[s], coro[s].files[k]) )
                  => (coro[s].pc = "file" /\ k = coro[s].i + 1)
         /\ ( /\ ingest_tasks[s].status \in {"queued", "in_progress"}
              /\ ingest_tasks'[s].status \in {"queued", "in_progress"} )
               => ingest_tasks'[s].percent >= ingest_tasks[s].percent]_vars

\* C24 witness: the second of two files has begun after the first was
\* processed, percent went 0 -> 50.
C24_Witness ==
    \E s \in Sid :
        /\ running = s
        /\ coro[s].pc = "file"
        /\ coro[s].i = 1
        /\ Len(coro[s].files) = 2
        /\ Touched(disk[s], coro[s].files[1])
        /\ ingest_tasks[s].percent = 50

\* C25: a source's passages file exists only if its index file exists, and a
\* load pairs an index only with the passages written with it: a source whose
\* second write has not happened is skipped, it is never loaded with passages
\* that belong to another index.
C25_IndexBeforePassages ==
    \A s \in Sid :
        /\ disk[s].chunks \subseteq disk[s].index
        /\ \A b \in LoadedSources(s) :
              \A g \in disk[s].index_of, h \in disk[s].chunks_of :
                 (g.base = b /\ h.base = b) => g = h

\* C26: the k handed to a source's index search is never larger than the
\* number of vectors in that index, so every id the search returns is the
\* ordinal of a stored passage of that source: no missing-neighbour id (-1)
\* is resolved to some passage.
C26_SearchWithinIndex ==
    (rt.pc = "done" /\ rt.ctx.outcome # "skipped") =>
        \A j \in 1..Len(rt.ctx.call.loaded) :
            LET src == rt.ctx.call.loaded[j]
                k == IF rt.top_k <= src.n THEN rt.top_k ELSE src.n
            IN  /\ k <= Len(src.vecs)
                /\ k >= 1 => \A r \in 1..k :
                                search(src.vecs, k)[r].i \in 0..(src.n - 1)

\* C27: a step of the ingestion batch of session s changes nothing of any
\* other session (its ingest task, session record, upload directory and
\* metadata file), and no session record at all.
C27_BatchTouchesOwnSession ==
    [][\A s \in Sid :
         (running = s \/ running' = s) =>
            /\ sessions' = sessions
            /\ \A t \in Sid \ {s} :
                  /\ ingest_tasks'[t] = ingest_tasks[t]
                  /\ disk'[t] = disk[t]
                  /\ session_meta'[t] = session_meta[t]]_vars

\* C27 witness: a batch is writing its session's index while another session
\* holds a completed task and an index of its own.
C27_Witness ==
    \E s, t \in Sid :
        /\ s # t
        /\ running = s
        /\ disk[s].index # {}
        /\ ingest_tasks[t].status = "completed"
        /\ disk[t].index # {}

\* requests that ask for an answer
AnswerOps == {"message", "plan", "ws_message"}

\* the message of reply r is not turned away before the ingest task is looked
\* at: send_message checks for a blank and an inappropriate message first,
\* websocket_chat for the exit command
PassedOwnChecks(r) ==
    /\ r.op = "message" => ~is_blank(r.msg) /\ ~contains_inappropriate_content(r.msg)
    /\ r.op = "ws_message" => ~is_exit(r.msg)

\* C28 (as claimed): once the task of a session is failed, every send_message,
\* websocket message and generate_diet_plan request for it is rejected as
\* "ingestion not complete", and the task stays failed until the session is
\* removed: nothing takes it to completed.
C28_FailedRejectsAll ==
    [][\A s \in Sid :
         (ingest_tasks[s].status = "failed" /\ sessions[s].present) =>
            /\ ingest_tasks'[s].status \in {"failed", "absent"}
            /\ ingest_tasks'[s].status = "absent" => ~sessions'[s].present
            /\ (resp = NoResp /\ resp'.op \in AnswerOps /\ resp'.sid = s)
                  => resp'.kind = "ingest_incomplete"]_vars

\* C28 (amended): the same for every request whose message is not turned away
\* by an earlier check of its handler (blank or inappropriate message for
\* send_message, exit command for the websocket).
C28_FailedRejectsChecked ==
    [][\A s \in Sid :
         (ingest_tasks[s].status = "failed" /\ sessions[s].present) =>
            /\ ingest_tasks'[s].status \in {"failed", "absent"}
            /\ ingest_tasks'[s].status = "absent" => ~sessions'[s].present
            /\ ( /\ resp = NoResp /\ resp'.op \in AnswerOps /\ resp'.sid = s
                 /\ PassedOwnChecks(resp') )
                  => /\ resp'.kind = "ingest_incomplete"
                     /\ ~resp'.retrieved]_vars

\* C28 witness: a diet question to a session whose batch has failed was
\* rejected as "ingestion not complete".
C28_Witness ==
    /\ resp.op \in AnswerOps
    /\ resp.kind = "ingest_incomplete"
    /\ ingest_tasks[resp.sid].status = "failed"
    /\ (resp.op = "plan" \/ is_diet_related_question(resp.msg))

\* C29: send_message and websocket_chat agree on a requested plan length: for
\* every day count D in 1..30 that parse_days_from_text returns for the
\* message, either path generates the D-day plan and neither answers with the
\* unsupported-duration response.
C29_PathsAgreeOnDays ==
    ( /\ resp.op \in {"message", "ws_message"}
      /\ resp.kind \in {"answer", "plan", "unsupported_duration"}
      /\ InRange(parse_days_from_text(resp.msg)) )
    => /\ resp.kind = "plan"
       /\ resp.days = parse_days_from_text(resp.msg)

\* C30: on the websocket a message that is not diet-related, sent while
\* ingestion is completed, gets the out-of-scope response and the connection
\* stays open, whatever was sent before on the connection (the first message
\* included): the answer is not formatted with the plan length of an earlier
\* message.
C30_WsGeneralAnswered ==
    ( /\ resp.op = "ws_message"
      /\ ~is_exit(resp.msg)
      /\ ~is_diet_related_question(resp.msg)
      /\ sessions[resp.sid].present
      /\ ingest_tasks[resp.sid].status = "completed" )
    => /\ resp.kind = "general"
       /\ ws.pc # "closed"
       /\ ~resp.styled

====
